---- MODULE Spec2Model ----
(***************************************************************************)
(* Model of the chat relay of app/models/schemas.py (ChatHistory,          *)
(* ConnectionManager), the session handler of app/api/endpoints/           *)
(* websocket.py and the HTTP feature endpoints of app/api/endpoints/       *)
(* features.py with the services they call.                                *)
(*                                                                         *)
(* One asyncio event loop runs everything: a step of the model is the code *)
(* a coroutine runs between two awaits.  The awaits of the session handler *)
(* are websocket.accept(), every send_json() and receive_text(); the HTTP  *)
(* endpoints contain no await and run as one step each.                    *)
(***************************************************************************)
EXTENDS Integers, Sequences, FiniteSets, TLC

\* ---------------------------------------------------------------- bounds
\* sessions that may connect / events that may be appended, per specification
LogSessions == 1
ChatSessions == 3
LogMsgs == 2
ChatMsgs == 1
\* calls of /ai-toggle
MaxToggles == 2
\* events that may be appended / refresh requests served, in the memory specification
MemMsgs == 2
MaxRefresh == 2
\* calls of /ai-toggle in the memory specification
MemToggles == 1
\* events that may be appended in the search specification
SearchMsgs == 1
\* sessions that may connect / events that may be appended, in the
\* specification of concurrent senders
OrderSessions == 3
OrderMsgs == 2
\* sessions that may connect / events that may be appended, in the
\* specification with fair scheduling
FairSessions == 2
FairMsgs == 1

MaxSessions == IF LogSessions > ChatSessions THEN LogSessions ELSE ChatSessions
MaxMsgs == IF LogMsgs > ChatMsgs THEN LogMsgs ELSE ChatMsgs

\* user_id values (uuid4 strings in the code): the k-th handler to start gets k
Sessions == 1..MaxSessions
\* display names; "System" is the sender name the summarizer filters out
Usernames == {"ann", "System"}
\* an absent Optional[str] argument
None == "None"
\* an Optional[bool] argument: absent, or a value
Absent == <<>>
Some(b) == <<b>>
\* values of context_window / total_messages a request may carry (0: falsy)
Windows == {0, 1}

\* ------------------------------------------------------- Python helpers
\* dict as a function: d.get(k, default)
DictGet(d, k, default) == IF k \in DOMAIN d THEN d[k] ELSE default
\* d[k] = v
DictPut(d, k, v) == [x \in (DOMAIN d) \cup {k} |-> IF x = k THEN v ELSE d[x]]
\* del d[k]
DictDel(d, k) == [x \in (DOMAIN d) \ {k} |-> d[x]]
EmptyDict == [x \in {} |-> 0]

\* s[i:] of a list
PySliceFrom(s, i) ==
    LET start == IF i < 0 THEN (IF Len(s) + i < 0 THEN 0 ELSE Len(s) + i) ELSE i
    IN IF start >= Len(s) THEN <<>> ELSE SubSeq(s, start + 1, Len(s))
\* s[-n:] of a list, n > 0
PySliceLast(s, n) == PySliceFrom(s, 0 - n)

\* ------------------------------------------------------------ ChatHistory
ChatMessage(sender, message, message_id, flag) ==
    [sender |-> sender, message |-> message, message_id |-> message_id,
     ai_enabled |-> flag]

add_message_default_true(msgs, cur, sender, message, message_id, flag) ==
    Append(msgs, ChatMessage(sender, message, message_id, TRUE))
add_message_front(msgs, cur, sender, message, message_id, flag) ==
    <<ChatMessage(sender, message, message_id,
                  IF flag = Absent THEN cur ELSE flag[1])>> \o msgs
\* the list after add_message; cur is self.ai_enabled, flag the ai_enabled
\* argument (Optional[bool])
add_message(msgs, cur, sender, message, message_id, flag) ==
    Append(msgs, ChatMessage(sender, message, message_id,
                             IF flag = Absent THEN cur ELSE flag[1]))

get_ai_enabled_messages_all(msgs) == msgs
get_ai_enabled_messages(msgs) == SelectSeq(msgs, LAMBDA m : m.ai_enabled)

get_all_messages_for_summary(msgs) == msgs

get_all_messages(msgs) == msgs

get_unread_count(msgs, last_read, username) ==
    Len(msgs) - DictGet(last_read, username, 0)

mark_as_read_short(msgs, last_read, username) ==
    DictPut(last_read, username, IF Len(msgs) > 0 THEN Len(msgs) - 1 ELSE 0)
mark_as_read_unread(msgs, last_read, username) ==
    DictPut(last_read, username, Len(msgs) - DictGet(last_read, username, 0))
mark_as_read(msgs, last_read, username) ==
    DictPut(last_read, username, Len(msgs))

get_unread_messages_skip(msgs, last_read, username) ==
    PySliceFrom(msgs, DictGet(last_read, username, 0) + 1)
get_unread_messages(msgs, last_read, username) ==
    PySliceFrom(msgs, DictGet(last_read, username, 0))

\* ------------------------------------------------------ ConnectionManager
\* active_connections is a Python dict.  Iterating it walks the entry table in
\* insertion order; a deleted key leaves a dead entry behind, a new key is
\* appended.  (CPython compacts the table only when an insertion finds it full,
\* first after five insertions; MaxSessions stays below that.)
Entry(key) == [key |-> key, live |-> TRUE]
Keys(entries) == {entries[i].key : i \in {j \in DOMAIN entries : entries[j].live}}
\* len(d)
Used(entries) == Cardinality({i \in DOMAIN entries : entries[i].live})
\* d[key] = value
EntrySet(entries, key) ==
    IF key \in Keys(entries) THEN entries ELSE Append(entries, Entry(key))
\* del d[key]
EntryDel(entries, key) ==
    [i \in DOMAIN entries |->
        IF entries[i].key = key THEN [entries[i] EXCEPT !.live = FALSE]
        ELSE entries[i]]
\* the entry a dict iterator standing after entry pos yields next, 0 at the end
NextEntry(entries, pos) ==
    LET later == {i \in DOMAIN entries : i > pos /\ entries[i].live}
    IN IF later = {} THEN 0 ELSE CHOOSE i \in later : \A j \in later : i <= j

\* the registry: [active_connections, user_names]
connect(reg, user_id, username) ==
    [active_connections |-> EntrySet(reg.active_connections, user_id),
     user_names |-> DictPut(reg.user_names, user_id, username)]

disconnect_drops_oldest(reg, user_id) ==
    LET first == NextEntry(reg.active_connections, 0)
        gone == IF user_id \in Keys(reg.active_connections) THEN user_id
                ELSE IF first = 0 THEN user_id
                ELSE reg.active_connections[first].key
    IN [active_connections |-> EntryDel(reg.active_connections, gone),
        user_names |-> IF gone \in DOMAIN reg.user_names
                       THEN DictDel(reg.user_names, gone) ELSE reg.user_names]
\* ConnectionManager.disconnect
disconnect(reg, user_id) ==
    [active_connections |->
        IF user_id \in Keys(reg.active_connections)
        THEN EntryDel(reg.active_connections, user_id)
        ELSE reg.active_connections,
     user_names |->
        IF user_id \in DOMAIN reg.user_names
        THEN DictDel(reg.user_names, user_id)
        ELSE reg.user_names]

get_user_count(reg) == Used(reg.active_connections)

send_personal_message_oldest(reg, user_id) ==
    IF user_id \in Keys(reg.active_connections)
    THEN {reg.active_connections[NextEntry(reg.active_connections, 0)].key}
    ELSE {}
\* ConnectionManager.send_personal_message: the sessions whose socket it
\* calls send_json on
send_personal_message(reg, user_id) ==
    IF user_id \in Keys(reg.active_connections) THEN {user_id} ELSE {}

get_username(reg, user_id) == DictGet(reg.user_names, user_id, "Unknown")

RECURSIVE DisconnectAll(_, _)
\* "for user_id in disconnected: self.disconnect(user_id)"
DisconnectAll(reg, ids) ==
    IF ids = <<>> THEN reg
    ELSE DisconnectAll(disconnect(reg, Head(ids)), Tail(ids))

\* ---------------------------------------------------------------- state
VARIABLES
    messages,            \* chat_history.messages
    user_last_read,      \* chat_history.user_last_read
    ai_enabled,          \* chat_history.ai_enabled
    ai_toggle_history,   \* chat_history.ai_toggle_history (the flags)
    active_connections,  \* manager.active_connections, as its entry table
    user_names,          \* manager.user_names
    transport,           \* per session: "none", "open" or "closed"
    h,                   \* per session: where its websocket_endpoint coroutine stands
    last_bc,             \* history: the broadcast call that ended last
    last_req,            \* history: the HTTP request served last
    n_appends,           \* history: number of add_message calls so far
    since_mark,          \* history: per user, add_message calls since its last mark_as_read
    collections,         \* vector store: the collections that exist
    individual_points,   \* vector store: individual_chats, point id -> point
    group_points,        \* vector store: group_chats, point id -> point
    n_refresh            \* history: number of refresh requests served

vars == <<messages, user_last_read, ai_enabled, ai_toggle_history,
          active_connections, user_names, transport, h, last_bc, last_req,
          n_appends, since_mark, collections, individual_points, group_points,
          n_refresh>>

logVars == <<messages, user_last_read, ai_enabled, ai_toggle_history, n_appends,
            since_mark>>
chatVars == <<active_connections, user_names, transport, h, last_bc>>
memVars == <<collections, individual_points, group_points, n_refresh>>

Registry == [active_connections |-> active_connections, user_names |-> user_names]

\* ---------------------------------------------------- websocket_endpoint
\* the awaits a handler can be suspended at (pc), and how it can have ended
Exited == {"done", "errored", "crashed"}
BroadcastStages == {"bc_join", "bc_count", "bc_message", "bc_leave", "bc_leave_count"}
PersonalStages == {"welcome", "user_count"}

NoPayload == [type |-> None, val |-> 0, flag |-> FALSE]
\* a handler's locals; got and start are history of the running broadcast
NewHandler ==
    [pc |-> "new", name |-> None, stage |-> None, msg |-> NoPayload,
     cur |-> 0, pos |-> 0, used |-> 0, failed |-> <<>>, got |-> {}, start |-> {}]

NoBroadcast ==
    [by |-> 0, stage |-> None, excl |-> {}, msg |-> NoPayload, start |-> {},
     got |-> {}, failed |-> {}, end |-> {}, after |-> {}, raised |-> FALSE]

\* the statement that follows each send or broadcast of the handler
AfterStage(stage) ==
    CASE stage = "bc_join" -> "welcome"
      [] stage = "welcome" -> "user_count"
      [] stage = "user_count" -> "bc_count"
      [] stage = "bc_count" -> "receive"
      [] stage = "bc_message" -> "receive"
      [] stage = "bc_leave" -> "bc_leave_count"
      [] stage = "bc_leave_count" -> "return"

\* exclude_user_id of each broadcast call, as a set
ExcludeOf(stage, s) == IF stage \in {"bc_join", "bc_message"} THEN {s} ELSE {}

Payload_counts_leaver(stage, reg) ==
    IF stage \in {"user_count", "bc_count", "bc_leave_count"}
    THEN [type |-> "user_count",
          val |-> get_user_count(reg) + (IF stage = "bc_leave_count" THEN 1 ELSE 0),
          flag |-> FALSE]
    ELSE [type |-> "system", val |-> 0, flag |-> FALSE]
\* the dict sent by the system and user_count calls
Payload(stage, reg) ==
    IF stage \in {"user_count", "bc_count", "bc_leave_count"}
    THEN [type |-> "user_count", val |-> get_user_count(reg), flag |-> FALSE]
    ELSE [type |-> "system", val |-> 0, flag |-> FALSE]

SeqRange(q) == {q[i] : i \in DOMAIN q}

\* a run of handler s from one await to the next works on
\* c = [reg: the registry, loc: its locals, bc: last_bc]
RECURSIVE Advance(_, _, _)
RECURSIVE Iterate(_, _)

BroadcastRecord(s, c, raised, after) ==
    [by |-> s, stage |-> c.loc.stage, excl |-> ExcludeOf(c.loc.stage, s),
     msg |-> c.loc.msg, start |-> c.loc.start, got |-> c.loc.got,
     failed |-> SeqRange(c.loc.failed), end |-> Keys(c.reg.active_connections),
     after |-> after, raised |-> raised]

\* the locals of a handler that is not inside broadcast()
At(loc, pc, stage, msg) ==
    [NewHandler EXCEPT !.pc = pc, !.name = loc.name, !.stage = stage, !.msg = msg]

\* an exception leaves broadcast(): only the receive loop is inside the try
BroadcastRaises(s, c) ==
    LET inTry == c.loc.stage = "bc_message"
        reg1 == IF inTry THEN disconnect(c.reg, s) ELSE c.reg
    IN [reg |-> reg1,
        loc |-> At(c.loc, IF inTry THEN "errored" ELSE "crashed", c.loc.stage,
                   NoPayload),
        bc |-> BroadcastRecord(s, c, TRUE, Keys(reg1.active_connections))]

BroadcastReturns_no_cleanup(s, c) ==
    Advance(s, AfterStage(c.loc.stage),
            [c EXCEPT !.bc = BroadcastRecord(s, c, FALSE,
                                             Keys(c.reg.active_connections))])
\* the loop is over: clean up the failed recipients, go on after the call
BroadcastReturns(s, c) ==
    LET reg1 == DisconnectAll(c.reg, c.loc.failed)
    IN Advance(s, AfterStage(c.loc.stage),
               [c EXCEPT !.reg = reg1,
                         !.bc = BroadcastRecord(s, c, FALSE,
                                                Keys(reg1.active_connections))])

\* next() of the items() iterator and the loop body up to the await
Iterate(s, c) ==
    LET conns == c.reg.active_connections
    IN IF Used(conns) # c.loc.used
       THEN BroadcastRaises(s, c)   \* RuntimeError: dictionary changed size
       ELSE LET idx == NextEntry(conns, c.loc.pos)
            IN IF idx = 0 THEN BroadcastReturns(s, c)
               ELSE IF conns[idx].key \in ExcludeOf(c.loc.stage, s)
                    THEN Iterate(s, [c EXCEPT !.loc.pos = idx])
                    ELSE [c EXCEPT !.loc.pos = idx, !.loc.cur = conns[idx].key]

StartBroadcast(s, stage, msg, c) ==
    Iterate(s, [c EXCEPT !.loc.pc = "send", !.loc.stage = stage, !.loc.msg = msg,
                         !.loc.cur = 0, !.loc.pos = 0,
                         !.loc.used = Used(c.reg.active_connections),
                         !.loc.failed = <<>>, !.loc.got = {},
                         !.loc.start = Keys(c.reg.active_connections)])

\* run handler s from the statement named stage to its next await
Advance(s, stage, c) ==
    CASE stage \in BroadcastStages ->
            StartBroadcast(s, stage,
                           IF stage = "bc_message" THEN c.loc.msg
                           ELSE Payload(stage, c.reg), c)
      [] stage \in PersonalStages ->
            \* send_personal_message: "if user_id in self.active_connections";
            \* cur is the session whose send_json is awaited
            LET to == send_personal_message(c.reg, s)
            IN IF to # {}
               THEN [c EXCEPT !.loc = [At(c.loc, "personal", stage,
                                          Payload(stage, c.reg))
                                          EXCEPT !.cur = CHOOSE t \in to : TRUE]]
               ELSE Advance(s, AfterStage(stage), c)
      [] stage = "receive" -> [c EXCEPT !.loc = At(c.loc, "receive", stage, NoPayload)]
      [] stage = "return" -> [c EXCEPT !.loc = At(c.loc, "done", stage, NoPayload)]

\* the state after such a run: accept() has opened the socket of a new handler,
\* the server closes the socket of a handler that ended
Resumed(s, c) ==
    /\ active_connections' = c.reg.active_connections
    /\ user_names' = c.reg.user_names
    /\ h' = [h EXCEPT ![s] = c.loc]
    /\ last_bc' = c.bc
    /\ transport' = [transport EXCEPT
                        ![s] = IF c.loc.pc \in Exited THEN "closed"
                               ELSE IF @ = "none" THEN "open" ELSE @]

Context(s) == [reg |-> Registry, loc |-> h[s], bc |-> last_bc]

\* a client connects: accept, register, start the join broadcast
Connect(s, username) ==
    /\ h[s].pc = "new"
    /\ \A t \in Sessions : t < s => h[t].pc # "new"
    /\ Resumed(s, Advance(s, "bc_join",
                          [reg |-> connect(Registry, s, username),
                           loc |-> [NewHandler EXCEPT !.name = username],
                           bc |-> last_bc]))
    /\ UNCHANGED <<logVars, last_req, memVars>>

\* the client of s goes away (tab closed, network gone)
ClientClose(s) ==
    /\ transport[s] = "open"
    /\ transport' = [transport EXCEPT ![s] = "closed"]
    /\ UNCHANGED <<logVars, active_connections, user_names, h, last_bc,
                   last_req, memVars>>

\* "await connection.send_json(message)" inside broadcast() ends
SendResume(s) ==
    /\ h[s].pc = "send"
    /\ LET r == h[s].cur
           c == Context(s)
       IN Resumed(s, Iterate(s,
              IF transport[r] = "open"
              THEN [c EXCEPT !.loc.got = @ \cup {r}]
              ELSE [c EXCEPT !.loc.failed = Append(@, r)]))
    /\ UNCHANGED <<logVars, last_req, memVars>>

\* the send_json of send_personal_message ends; a failure leaves the handler
PersonalResume(s) ==
    /\ h[s].pc = "personal"
    /\ LET c == Context(s)
       IN Resumed(s, IF transport[h[s].cur] = "open"
                     THEN Advance(s, AfterStage(h[s].stage), c)
                     ELSE [c EXCEPT !.loc = At(c.loc, "crashed", h[s].stage,
                                               NoPayload)])
    /\ UNCHANGED <<logVars, last_req, memVars>>

\* text the client sends; what is stored for it
Texts == {"hi"}
AudioTexts == {"[AUDIO]: /uploads/a.webm"}
\* "if message_text.startswith('[AUDIO]: '): stored_message = '[AUDIO]'"
StoredMessage(text) == IF text \in AudioTexts THEN "[AUDIO]" ELSE text

\* receive_text returns: store the event, start its broadcast
ReceiveText(s, cap) ==
    /\ h[s].pc = "receive"
    /\ transport[s] = "open"
    /\ Len(messages) < cap
    /\ \E text \in Texts :
         LET id == n_appends + 1
             msgs == add_message(messages, ai_enabled, h[s].name,
                                 StoredMessage(text), id, Some(ai_enabled))
             stored == msgs[Len(msgs)]
             c == Context(s)
         IN /\ messages' = msgs
            /\ n_appends' = n_appends + 1
            /\ since_mark' = [u \in DOMAIN since_mark |-> since_mark[u] + 1]
            /\ Resumed(s, Advance(s, "bc_message",
                   [c EXCEPT !.loc.msg = [type |-> "message",
                                          val |-> stored.message_id,
                                          flag |-> stored.ai_enabled]]))
    /\ UNCHANGED <<user_last_read, ai_enabled, ai_toggle_history, last_req, memVars>>

\* receive_text raises WebSocketDisconnect: deregister, announce the leave
ReceiveDisconnect(s) ==
    /\ h[s].pc = "receive"
    /\ transport[s] = "closed"
    /\ LET c == Context(s)
       IN Resumed(s, Advance(s, "bc_leave", [c EXCEPT !.reg = disconnect(c.reg, s)]))
    /\ UNCHANGED <<logVars, last_req, memVars>>

\* ------------------------------------------------------------- services
\* what a service hands to the LLM collaborator: the events whose text it puts
\* in the prompt (llm), and whether the completion call is made (called)
NoCall == [llm |-> <<>>, called |-> FALSE, raised |-> FALSE]
Call(events) == [llm |-> events, called |-> TRUE, raised |-> FALSE]

\* "msg.get('sender') != 'System'"
NonSystem(msgs) == SelectSeq(msgs, LAMBDA m : m.sender # "System")
\* "if n and n > 0: msgs = msgs[-n:]"
LastN(msgs, n) == IF n > 0 THEN PySliceLast(msgs, n) ELSE msgs

\* summarizer.generate_chat_summary; key: GROQ_API_KEY is set.  Every failure
\* of the call is caught inside, so it always returns a summary.
generate_chat_summary(msgs, total_messages, key) ==
    IF msgs = <<>> \/ NonSystem(msgs) = <<>> \/ ~key THEN NoCall
    ELSE Call(LastN(NonSystem(msgs), total_messages))

\* summarizer.generate_memory_extraction: no key check, failures caught
generate_memory_extraction(msgs) ==
    IF msgs = <<>> THEN NoCall ELSE Call(NonSystem(msgs))

\* task_classifier.extract_tasks_from_messages: a missing key raises
extract_tasks_from_messages(msgs, key) ==
    IF msgs = <<>> \/ NonSystem(msgs) = <<>> THEN NoCall
    ELSE IF ~key THEN [NoCall EXCEPT !.raised = TRUE]
    ELSE Call(NonSystem(msgs))

\* "get_unread_messages(username); if not all_messages: <fallback>", else fallback
UnreadOr(msgs, last_read, username, fallback) ==
    IF username # None
    THEN LET unread == get_unread_messages(msgs, last_read, username)
         IN IF unread = <<>> THEN fallback ELSE unread
    ELSE fallback

\* reminder_service.generate_context_based_suggestions, lines 39-46
reminder_messages(msgs, last_read, username) ==
    UnreadOr(msgs, last_read, username, get_ai_enabled_messages(msgs))

\* reminder_service.generate_context_based_suggestions: all failures caught
generate_context_based_suggestions(msgs, last_read, username, context_window, key) ==
    LET selected == LastN(reminder_messages(msgs, last_read, username), context_window)
    IN IF selected = <<>> \/ ~key THEN NoCall ELSE Call(selected)

\* translation_service.translate_messages_batch: a missing key raises
translate_messages_batch(events, key) ==
    IF events = <<>> THEN NoCall
    ELSE IF ~key THEN [NoCall EXCEPT !.raised = TRUE]
    ELSE Call(events)

\* ai_service.call_groq_ai: without a key it returns an error string
call_groq_ai(events, key) == IF key THEN Call(events) ELSE NoCall

\* memory_service._build_memories_from_messages: the two LLM calls it makes
\* see the same events; produced: the completions yield text for a record
build_memories_calls(msgs, key) ==
    IF msgs = <<>> THEN NoCall
    ELSE LET a == generate_chat_summary(msgs, 200, key)
             b == generate_memory_extraction(msgs)
         IN [llm |-> b.llm, called |-> a.called \/ b.called, raised |-> FALSE]

\* ------------------------------------------------ LLM completions, distill
\* What the completion of generate_chat_summary can be: the call raises or the
\* text is not JSON ("fail"), a JSON object with a summary ("text"), a JSON
\* object whose summary is the empty string ("blank").
SummaryOutcomes == {"fail", "text", "blank"}
\* What the completion of generate_memory_extraction can be: the call raises
\* or the text is not JSON ("fail"), JSON that is not an object
\* ("not_object"), an object with nothing in it ("empty"), an object with a
\* list of decisions ("decisions"), an object whose decisions are a number
\* ("bad_section"), an object whose faqs hold a non-object ("bad_faq"), an
\* object with lists of tasks and facts ("tasks_facts"), an object with a
\* list in every section ("all_sections").
ExtractionOutcomes ==
    {"fail", "not_object", "empty", "decisions", "bad_section", "bad_faq",
     "tasks_facts", "all_sections"}

\* a text the prompt determines: who wrote it and the events it was written from
MessageIds(msgs) == [i \in DOMAIN msgs |-> msgs[i].message_id]
Written(by, msgs) == [by |-> by, ids |-> MessageIds(msgs)]
Blank == [by |-> "blank", ids |-> <<>>]

\* the "summary" field of what generate_chat_summary returns
chat_summary_text(msgs, total_messages, key, outcome) ==
    IF msgs = <<>> THEN Written("no_messages", <<>>)
    ELSE IF NonSystem(msgs) = <<>> THEN Written("no_chat_messages", <<>>)
    ELSE LET chat_messages == LastN(NonSystem(msgs), total_messages)
         IN IF ~key \/ outcome = "fail" THEN Written("fallback", chat_messages)
            ELSE IF outcome = "blank" THEN Blank
            ELSE Written("llm", chat_messages)

\* the value generate_memory_extraction returns: json.loads of the completion,
\* or {} when anything raised.  A section is "empty", a "list" or a "number".
EmptyExtraction ==
    [object |-> TRUE, decisions |-> "empty", tasks |-> "empty", facts |-> "empty",
     faqs |-> "empty"]
memory_extraction_data(msgs, outcome) ==
    IF msgs = <<>> \/ outcome \in {"fail", "empty"} THEN EmptyExtraction
    ELSE IF outcome = "not_object" THEN [EmptyExtraction EXCEPT !.object = FALSE]
    ELSE IF outcome = "decisions" THEN [EmptyExtraction EXCEPT !.decisions = "list"]
    ELSE IF outcome = "bad_section" THEN [EmptyExtraction EXCEPT !.decisions = "number"]
    ELSE IF outcome = "tasks_facts"
    THEN [EmptyExtraction EXCEPT !.tasks = "list", !.facts = "list"]
    ELSE IF outcome = "all_sections"
    THEN [object |-> TRUE, decisions |-> "list", tasks |-> "list", facts |-> "list",
          faqs |-> "list"]
    ELSE [EmptyExtraction EXCEPT !.faqs = "bad_items"]

SectionsOf_tasks_first(chat_type) ==
    IF chat_type = "individual" THEN <<"tasks", "decisions", "facts">>
    ELSE <<"faqs", "decisions">>
\* the sections _build_memories_from_messages reads for a chat type
SectionsOf(chat_type) ==
    IF chat_type = "individual" THEN <<"decisions", "tasks", "facts">>
    ELSE <<"decisions", "faqs">>

\* "x = extraction_data.get(name, []); if x: lines.append(..); for d in x: ..":
\* the line written for a section, <<>> for a falsy one
section_lines(extraction, name, msgs) ==
    IF extraction[name] = "empty" THEN <<>>
    ELSE <<[tag |-> name, text |-> Written("llm", NonSystem(msgs))]>>

\* the loop over a section raises: a number is not iterable, a non-object has no .get
section_raises(extraction, name) == extraction[name] \in {"number", "bad_items"}

\* memory_service._build_memories_from_messages: the records distilled from
\* the events, or the exception that leaves it.  An event's timestamp is
\* stood for by its position id.
build_memories_from_messages(msgs, chat_type, key, summary, extraction) ==
    LET data == memory_extraction_data(msgs, IF key THEN extraction ELSE "fail")
        names == SectionsOf(chat_type)
        Lines[i \in 0..Len(names)] ==
            IF i = 0 THEN <<>> ELSE Lines[i - 1] \o section_lines(data, names[i], msgs)
        special == Lines[Len(names)]
        overview == chat_summary_text(msgs, 200, key, summary)
        lines == IF special # <<>> THEN special
                 ELSE IF overview # Blank THEN <<[tag |-> "overview", text |-> overview]>>
                 ELSE <<>>
    IN IF msgs = <<>> THEN [raised |-> FALSE, memories |-> <<>>]
       ELSE IF ~data.object \/ \E i \in DOMAIN names : section_raises(data, names[i])
       THEN [raised |-> TRUE, memories |-> <<>>]
       ELSE IF lines = <<>> THEN [raised |-> FALSE, memories |-> <<>>]
       ELSE [raised |-> FALSE,
             memories |-> <<[memory_type |-> "conversation_summary",
                             summary_text |-> lines,
                             time_range |-> [from |-> msgs[1].message_id,
                                             to |-> msgs[Len(msgs)].message_id]]>>]

\* ------------------------------------------------------- vector store
\* settings.QDRANT_INDIVIDUAL_COLLECTION / QDRANT_GROUP_COLLECTION
IndividualCollection == "individual_chats"
GroupCollection == "group_chats"

\* the calls ensure_collections_exist makes for one collection
ensure_calls(cols, name) ==
    <<"collection_exists">>
    \o (IF name \in cols THEN <<>> ELSE <<"recreate_collection">>)
    \o <<"create_payload_index", "create_payload_index">>
    \o (IF name = GroupCollection THEN <<"create_payload_index">> ELSE <<>>)

\* the vector store as a request finds it: "unconfigured" (QDRANT_URL or
\* QDRANT_API_KEY unset, _get_qdrant_client raises RuntimeError),
\* "unreachable" (the client is made, its first call raises), or "ok"
StoreStates == {"ok", "unconfigured", "unreachable"}

ensure_collections_exist_swallow(cols, store) ==
    [raised |-> FALSE,
     calls |-> IF store = "unconfigured" THEN <<>> ELSE <<"client", "collection_exists">>,
     collections |-> cols]
\* memory_service.ensure_collections_exist
ensure_collections_exist(cols, store) ==
    IF store = "unconfigured"
    THEN [raised |-> TRUE, calls |-> <<>>, collections |-> cols]
    ELSE IF store = "unreachable"
    THEN [raised |-> TRUE, calls |-> <<"client", "collection_exists">>,
          collections |-> cols]
    ELSE [raised |-> FALSE,
          calls |-> <<"client">> \o ensure_calls(cols, IndividualCollection)
                    \o ensure_calls(cols, GroupCollection),
          collections |-> cols \cup {IndividualCollection, GroupCollection}]

\* participant ids a request may carry, in the order sorted() puts them
UserIds == <<"a", "b">>
Rank(id) == CHOOSE i \in DOMAIN UserIds : UserIds[i] = id
\* sorted([user1_id, user2_id])
sorted_ids(user1_id, user2_id) ==
    IF Rank(user1_id) <= Rank(user2_id) THEN <<user1_id, user2_id>>
    ELSE <<user2_id, user1_id>>

\* uuid.uuid5(NAMESPACE_DNS, seed): a hash of the seed, one id per seed
uuid5(seed) == "uuid5(" \o seed \o ")"

individual_chat_id(user1_id, user2_id) ==
    LET ids == sorted_ids(user1_id, user2_id)
    IN "individual:" \o ids[1] \o ":" \o ids[2]

individual_point_id_no_names(user1_id, user1_name, user2_id, user2_name) ==
    uuid5(individual_chat_id(user1_id, user2_id))
individual_point_id_per_call(user1_id, user1_name, user2_id, user2_name) ==
    uuid5(individual_chat_id(user1_id, user2_id) \o ":" \o user1_name \o ":"
          \o user2_name \o (IF n_refresh % 2 = 0 THEN ":0" ELSE ":1"))
\* "id_seed = f'{chat_id}:{user1_name}:{user2_name}'; point_id = str(uuid5(..))"
individual_point_id(user1_id, user1_name, user2_id, user2_name) ==
    uuid5(individual_chat_id(user1_id, user2_id) \o ":" \o user1_name \o ":"
          \o user2_name)

group_chat_id(group_id) == "group:" \o group_id
\* "id_seed = f'{chat_id}:{group_name}'"
group_point_id(group_id, group_name) ==
    uuid5(group_chat_id(group_id) \o ":" \o group_name)

\* memory_service.embed_text
embed_text(text) == [zero |-> text = <<>>, of |-> text]

\* the requests a client may send to the refresh endpoints
IndividualRequests ==
    {[user1_id |-> "a", user1_name |-> "Ann", user2_id |-> "b", user2_name |-> "Bob"],
     [user1_id |-> "a", user1_name |-> "Anna", user2_id |-> "b", user2_name |-> "Bob"],
     [user1_id |-> "b", user1_name |-> "Bob", user2_id |-> "a", user2_name |-> "Ann"]}
GroupParticipants ==
    <<[user_id |-> "a", name |-> "Ann"], [user_id |-> "b", name |-> "Bob"]>>
GroupRequests ==
    {[group_id |-> "g", group_name |-> n, participants |-> GroupParticipants] :
        n \in {"Team", "Crew"}}

\* what an upsert function hands back: the exception that left it ("store":
\* the client could not be made, "distill": _build_memories_from_messages
\* raised), the count it returns, the calls made on the store, the store after
UpsertResult(raised, count, calls, cols, points, point_id) ==
    [raised |-> raised, count |-> count, calls |-> calls, collections |-> cols,
     points |-> points, point_id |-> point_id]

\* the body the two upsert functions share.  The events carry no "user_id"
\* key, so the renaming loop ("if uid in current_names") changes none of them.
upsert_chat_memories(cols, points, msgs, chat_type, point_id, base, store, key, summary, extraction) ==
    LET ensured == ensure_collections_exist(cols, store)
        calls == ensured.calls \o <<"client">>
        built == build_memories_from_messages(msgs, chat_type, key, summary, extraction)
    IN IF ensured.raised
       THEN UpsertResult("store", 0, ensured.calls, cols, points, None)
       ELSE IF msgs = <<>>
       THEN UpsertResult("none", 0, calls, ensured.collections, points, None)
       ELSE IF built.raised
       THEN UpsertResult("distill", 0, calls, ensured.collections, points, None)
       ELSE IF built.memories = <<>>
       THEN UpsertResult("none", 0, calls, ensured.collections, points, None)
       ELSE LET mem == built.memories[1]
                payload == [base EXCEPT !.memory_type = mem.memory_type,
                                        !.summary_text = mem.summary_text,
                                        !.time_range = mem.time_range]
                point == [id |-> point_id, vector |-> embed_text(mem.summary_text),
                          payload |-> payload]
            IN UpsertResult("none", Len(built.memories), calls \o <<"upsert">>,
                            ensured.collections, DictPut(points, point_id, point),
                            point_id)

NoTimeRange == [from |-> 0, to |-> 0]

\* memory_service.upsert_individual_chat_memories
upsert_individual_chat_memories(cols, points, req, msgs, store, key, summary, extraction) ==
    upsert_chat_memories(cols, points, msgs, "individual",
        individual_point_id(req.user1_id, req.user1_name, req.user2_id, req.user2_name),
        [chat_id |-> individual_chat_id(req.user1_id, req.user2_id),
         chat_type |-> "individual",
         sender_user_id |-> req.user1_id, sender_name |-> req.user1_name,
         receiver_user_id |-> req.user2_id, receiver_name |-> req.user2_name,
         participant_ids |-> <<req.user1_id, req.user2_id>>,
         participants |-> <<[user_id |-> req.user1_id, name |-> req.user1_name],
                            [user_id |-> req.user2_id, name |-> req.user2_name]>>,
         memory_type |-> None, summary_text |-> <<>>, time_range |-> NoTimeRange],
        store, key, summary, extraction)

\* memory_service.upsert_group_chat_memories
upsert_group_chat_memories(cols, points, req, msgs, store, key, summary, extraction) ==
    upsert_chat_memories(cols, points, msgs, "group",
        group_point_id(req.group_id, req.group_name),
        [group_id |-> req.group_id, group_name |-> req.group_name,
         chat_id |-> group_chat_id(req.group_id), chat_type |-> "group",
         participant_ids |-> [i \in DOMAIN req.participants |->
                                 req.participants[i].user_id],
         participants |-> req.participants,
         memory_type |-> None, summary_text |-> <<>>, time_range |-> NoTimeRange],
        store, key, summary, extraction)

\* request.limit of the search requests; DefaultLimit is its default
DefaultLimit == 10
Limits == {1, DefaultLimit}
\* user_id / group_id a search request may name; "c" and "x" match no point
SearchUserIds == {"a", "c"}
SearchGroupIds == {"g", "x"}

Points(points) == {points[k] : k \in DOMAIN points}
\* the orders in which client.search can rank a set of hits
Rankings(hits) ==
    {q \in [1..Cardinality(hits) -> hits] :
        \A i, j \in 1..Cardinality(hits) : i # j => q[i] # q[j]}
FirstN(q, n) == IF Len(q) <= n THEN q ELSE SubSeq(q, 1, n)
\* "return [hit.payload for hit in results]"
Payloads(q) == [i \in DOMAIN q |-> q[i].payload]

\* the points the filter of search_individual_memories lets through
individual_hits(points, user_id) ==
    {pt \in Points(points) :
        \E i \in DOMAIN pt.payload.participant_ids :
            pt.payload.participant_ids[i] = user_id}
\* the points the filter of search_group_memories lets through
group_hits(points, group_id) ==
    {pt \in Points(points) : pt.payload.group_id = group_id}

\* search_individual_memories / search_group_memories after the filter:
\* ranked is the order the store ranks the hits in
search_memories(cols, ranked, limit, store) ==
    LET ensured == ensure_collections_exist(cols, store)
    IN IF ensured.raised
       THEN [raised |-> TRUE, calls |-> ensured.calls, collections |-> cols,
             results |-> <<>>]
       ELSE [raised |-> FALSE, calls |-> ensured.calls \o <<"client", "search">>,
             collections |-> ensured.collections,
             results |-> Payloads(FirstN(ranked, limit))]

\* What the completion of generate_rag_answer can be: the call raises or the
\* text is not JSON ("fail"), JSON that is not an object ("not_object"), an
\* object with an answer only ("answer"), an object with answer and sources
\* ("answer_sources"), an object with neither ("neither").
RagOutcomes == {"fail", "not_object", "answer", "answer_sources", "neither"}

\* "source_label = f'Source {i+1} ({', '.join(names)} - {time_range})'"
source_label(i, mem) ==
    [source |-> i,
     names |-> [k \in DOMAIN mem.participants |-> mem.participants[k].name],
     from |-> mem.time_range.from]
\* the sources a completion names are the model's own words
CitedByLLM == <<[source |-> 0, names |-> <<>>, from |-> 0]>>

generate_rag_answer_always_calls(context_memories, outcome) ==
    IF outcome \in {"fail", "not_object"}
    THEN [answer |-> "error", sources |-> <<>>, called |-> TRUE]
    ELSE [answer |-> "llm", sources |-> CitedByLLM, called |-> TRUE]
\* summarizer.generate_rag_answer
generate_rag_answer(context_memories, outcome) ==
    LET sources == [i \in DOMAIN context_memories |->
                       source_label(i, context_memories[i])]
    IN IF context_memories = <<>>
       THEN [answer |-> "none_found", sources |-> <<>>, called |-> FALSE]
       ELSE IF outcome \in {"fail", "not_object"}
       THEN [answer |-> "error", sources |-> <<>>, called |-> TRUE]
       ELSE [answer |-> IF outcome = "neither" THEN "format_error" ELSE "llm",
             sources |-> IF outcome = "answer_sources" THEN CitedByLLM ELSE sources,
             called |-> TRUE]

\* -------------------------------------------------------- HTTP endpoints
NoRequest ==
    [ep |-> None, user |-> None, status |-> 0, messages |-> <<>>, count |-> 0,
     flag |-> FALSE, llm |-> <<>>, called |-> FALSE, distill |-> <<>>,
     distilled |-> FALSE, at |-> 0,
     \* memory endpoints: the request body, the completions, the exception that
     \* left the service, the calls made on the store, the point written,
     \* the search results and the answer
     body |-> <<>>, summary |-> None, extraction |-> None, rag |-> None,
     raised |-> "none", store |-> None, store_calls |-> <<>>, point_id |-> None,
     results |-> <<>>, answer |-> None, sources |-> <<>>,
     \* the request before it was the same one, served from the same events
     \* with the same completions
     repeat |-> FALSE]

\* the record of a request; at, flag: len(chat_history.messages) and
\* chat_history.ai_enabled when it is served
Request(ep, user, status) ==
    [NoRequest EXCEPT !.ep = ep, !.user = user, !.status = status,
                      !.at = Len(messages), !.flag = ai_enabled]
WithCall(req, call) == [req EXCEPT !.llm = call.llm, !.called = call.called]

RECURSIVE Ascending(_)
\* the ids of a request body, in the order the client lists them
Ascending(S) ==
    IF S = {} THEN <<>>
    ELSE LET m == CHOOSE x \in S : \A y \in S : x <= y
         IN <<m>> \o Ascending(S \ {m})

\* "ai_enabled_ids = {...}; filtered = [m for m in request.messages if m.id in ai_enabled_ids]"
\* as the stored events the kept items name
FilterRequest(msgs, ids) ==
    LET allowed == {m.message_id : m \in SeqRange(get_ai_enabled_messages(msgs))}
    IN SelectSeq(msgs, LAMBDA m : m.message_id \in ids /\ m.message_id \in allowed)

set_ai_enabled_no_record(history, enabled) ==
    [ai_enabled |-> enabled,
     ai_toggle_history |-> IF history = <<>> THEN <<enabled>> ELSE history]
\* set_ai_enabled
set_ai_enabled(history, enabled) == [ai_enabled |-> enabled,
                                     ai_toggle_history |-> Append(history, enabled)]

\* GET /ai-status
GetAIStatus ==
    /\ last_req' = [Request("ai-status", None, 200) EXCEPT !.flag = ai_enabled]
    /\ UNCHANGED <<logVars, chatVars, memVars>>

\* POST /ai-toggle
ToggleAI(enabled) ==
    /\ Len(ai_toggle_history) < MaxToggles
    /\ LET st == set_ai_enabled(ai_toggle_history, enabled)
       IN /\ ai_enabled' = st.ai_enabled
          /\ ai_toggle_history' = st.ai_toggle_history
          /\ last_req' = [Request("ai-toggle", None, 200) EXCEPT !.flag = st.ai_enabled]
    /\ UNCHANGED <<messages, user_last_read, n_appends, since_mark, chatVars, memVars>>

summarize_chat_cursor_marks_first(msgs, last_read, username, raised) ==
    IF username # None THEN mark_as_read(msgs, last_read, username) ELSE last_read
\* summarize_chat: user_last_read after the request; raised: an exception left
\* generate_chat_summary, so "if request.username: mark_as_read" is not reached
summarize_chat_cursor(msgs, last_read, username, raised) ==
    IF ~raised /\ username # None THEN mark_as_read(msgs, last_read, username)
    ELSE last_read

\* POST /chat-summarize
SummarizeChat(username, total_messages, key) ==
    /\ LET selected == UnreadOr(messages, user_last_read, username,
                                get_all_messages_for_summary(messages))
           call == generate_chat_summary(selected, total_messages, key)
       IN /\ user_last_read' = summarize_chat_cursor(messages, user_last_read,
                                                     username, call.raised)
          /\ since_mark' = IF ~call.raised /\ username # None
                           THEN DictPut(since_mark, username, 0)
                           ELSE since_mark
          /\ last_req' = WithCall(Request("chat-summarize", username,
                                          IF call.raised THEN 500 ELSE 200), call)
    /\ UNCHANGED <<messages, ai_enabled, ai_toggle_history, n_appends, chatVars, memVars>>

\* GET /unread-messages
GetMessages(username) ==
    /\ last_req' =
         IF username # None
         THEN [Request("unread-messages", username, 200) EXCEPT
                  !.messages = get_unread_messages(messages, user_last_read, username),
                  !.count = get_unread_count(messages, user_last_read, username)]
         ELSE [Request("unread-messages", username, 200) EXCEPT
                  !.messages = get_all_messages(messages),
                  !.count = Len(messages)]
    /\ UNCHANGED <<logVars, chatVars, memVars>>

\* POST /prioritize, /moderate: the same filtering, one call_groq_ai
AnalyzeMessages(ep, ids, key) ==
    /\ last_req' =
         IF ~ai_enabled THEN Request(ep, None, 403)
         ELSE WithCall(Request(ep, None, 200),
                       call_groq_ai(FilterRequest(messages, ids), key))
    /\ UNCHANGED <<logVars, chatVars, memVars>>

Prioritize(ids, key) == AnalyzeMessages("prioritize", ids, key)

Moderate(ids, key) == AnalyzeMessages("moderate", ids, key)

\* POST /smart-replies: the prompt holds the last kept message
SmartReplies(ids, key) ==
    /\ last_req' =
         IF ~ai_enabled THEN Request("smart-replies", None, 403)
         ELSE LET kept == FilterRequest(messages, ids)
              IN WithCall(Request("smart-replies", None, 200),
                          IF kept = <<>> THEN NoCall
                          ELSE call_groq_ai(<<kept[Len(kept)]>>, key))
    /\ UNCHANGED <<logVars, chatVars, memVars>>

\* POST /translate
Translate(ids, key) ==
    /\ last_req' =
         IF ~ai_enabled THEN Request("translate", None, 403)
         ELSE LET call == translate_messages_batch(FilterRequest(messages, ids), key)
              IN WithCall(Request("translate", None, IF call.raised THEN 500 ELSE 200),
                          call)
    /\ UNCHANGED <<logVars, chatVars, memVars>>

\* POST /tasks-classifier
ClassifyTasks(username, key) ==
    /\ last_req' =
         IF ~ai_enabled THEN Request("tasks-classifier", username, 403)
         ELSE LET selected == UnreadOr(messages, user_last_read, username,
                                       get_ai_enabled_messages(messages))
                  call == extract_tasks_from_messages(selected, key)
              IN WithCall(Request("tasks-classifier", username,
                                  IF call.raised THEN 500 ELSE 200), call)
    /\ UNCHANGED <<logVars, chatVars, memVars>>

\* POST /smart-reminders/suggestions
ReminderSuggestions(username, context_window, key) ==
    /\ last_req' =
         IF ~ai_enabled THEN Request("smart-reminders", username, 403)
         ELSE WithCall(Request("smart-reminders", username, 200),
                       generate_context_based_suggestions(
                           messages, user_last_read, username, context_window, key))
    /\ UNCHANGED <<logVars, chatVars, memVars>>

refresh_messages_current_flag(msgs, flag) == IF flag THEN msgs ELSE <<>>
\* refresh_individual_memory / refresh_group_memory: the slice they start from
refresh_messages(msgs, flag) == get_ai_enabled_messages(msgs)

\* the completions a request can meet: without GROQ_API_KEY every call fails
Completions ==
    {c \in [key : BOOLEAN, summary : SummaryOutcomes, extraction : ExtractionOutcomes] :
        ~c.key => (c.summary = "fail" /\ c.extraction = "fail")}

\* the response of a refresh endpoint: an exception that leaves the upsert
\* function is not caught and becomes a 500
RefreshResponse(ep, body, selected, store, c, r) ==
    [WithCall(Request(ep, None, IF r.raised = "none" THEN 200 ELSE 500),
              IF store = "ok" THEN build_memories_calls(selected, c.key) ELSE NoCall)
        EXCEPT !.body = body, !.distill = selected, !.store = store,
               !.distilled = store = "ok" /\ selected # <<>>,
               !.summary = c.summary, !.extraction = c.extraction,
               !.raised = r.raised, !.count = r.count,
               !.store_calls = r.calls, !.point_id = r.point_id,
               !.repeat = /\ last_req.ep = ep
                          /\ last_req.body = body
                          /\ last_req.distill = selected
                          /\ last_req.summary = c.summary
                          /\ last_req.extraction = c.extraction
                          /\ last_req.raised = r.raised]

\* POST /ai-memory/refresh-individual
RefreshIndividual(body, store, c) ==
    /\ n_refresh < MaxRefresh
    /\ LET selected == refresh_messages(messages, ai_enabled)
           r == upsert_individual_chat_memories(collections, individual_points, body,
                    selected, store, c.key, c.summary, c.extraction)
       IN /\ last_req' = RefreshResponse("refresh-individual", body, selected,
                                         store, c, r)
          /\ collections' = r.collections
          /\ individual_points' = r.points
    /\ n_refresh' = n_refresh + 1
    /\ UNCHANGED <<logVars, chatVars, group_points>>

\* POST /ai-memory/refresh-group
RefreshGroup(body, store, c) ==
    /\ n_refresh < MaxRefresh
    /\ LET selected == refresh_messages(messages, ai_enabled)
           r == upsert_group_chat_memories(collections, group_points, body,
                    selected, store, c.key, c.summary, c.extraction)
       IN /\ last_req' = RefreshResponse("refresh-group", body, selected,
                                         store, c, r)
          /\ collections' = r.collections
          /\ group_points' = r.points
    /\ n_refresh' = n_refresh + 1
    /\ UNCHANGED <<logVars, chatVars, individual_points>>

\* the response of a search endpoint: results, answer and sources
SearchResponse(ep, store, found, outcome) ==
    IF found.raised
    THEN [Request(ep, None, 500)
             EXCEPT !.raised = "store", !.store = store,
                    !.store_calls = found.calls]
    ELSE LET rag == generate_rag_answer(found.results, outcome)
         IN [Request(ep, None, 200)
                EXCEPT !.results = found.results, !.store = store,
                       !.store_calls = found.calls, !.rag = outcome,
                       !.called = rag.called, !.answer = rag.answer,
                       !.sources = rag.sources]

\* POST /ai-memory/search-individual
SearchIndividual(user_id, limit, store, outcome) ==
    /\ \E ranked \in Rankings(individual_hits(individual_points, user_id)) :
         LET found == search_memories(collections, ranked, limit, store)
         IN /\ last_req' = SearchResponse("search-individual", store, found, outcome)
            /\ collections' = found.collections
    /\ UNCHANGED <<logVars, chatVars, individual_points, group_points, n_refresh>>

\* POST /ai-memory/search-group
SearchGroup(group_id, limit, store, outcome) ==
    /\ \E ranked \in Rankings(group_hits(group_points, group_id)) :
         LET found == search_memories(collections, ranked, limit, store)
         IN /\ last_req' = SearchResponse("search-group", store, found, outcome)
            /\ collections' = found.collections
    /\ UNCHANGED <<logVars, chatVars, individual_points, group_points, n_refresh>>

Init ==
    /\ messages = <<>>
    /\ user_last_read = EmptyDict
    /\ ai_enabled = TRUE
    /\ ai_toggle_history = <<>>
    /\ active_connections = <<>>
    /\ user_names = EmptyDict
    /\ transport = [s \in Sessions |-> "none"]
    /\ h = [s \in Sessions |-> NewHandler]
    /\ last_bc = NoBroadcast
    /\ last_req = NoRequest
    /\ n_appends = 0
    /\ since_mark = EmptyDict
    /\ collections = {}
    /\ individual_points = EmptyDict
    /\ group_points = EmptyDict
    /\ n_refresh = 0

SessionStep(n, names, cap) ==
    \E s \in 1..n :
        \/ \E username \in names : Connect(s, username)
        \/ ClientClose(s)
        \/ SendResume(s)
        \/ PersonalResume(s)
        \/ ReceiveText(s, cap)
        \/ ReceiveDisconnect(s)

OptUsers == Usernames \cup {None}
IdSets == SUBSET (1..LogMsgs)

HttpStep ==
    \/ GetAIStatus
    \/ \E enabled \in BOOLEAN : ToggleAI(enabled)
    \/ \E u \in OptUsers, w \in Windows, key \in BOOLEAN : SummarizeChat(u, w, key)
    \/ \E u \in OptUsers : GetMessages(u)
    \/ \E ids \in IdSets, key \in BOOLEAN : Prioritize(ids, key)
    \/ \E ids \in IdSets, key \in BOOLEAN : Moderate(ids, key)
    \/ \E ids \in IdSets, key \in BOOLEAN : SmartReplies(ids, key)
    \/ \E ids \in IdSets, key \in BOOLEAN : Translate(ids, key)
    \/ \E u \in OptUsers, key \in BOOLEAN : ClassifyTasks(u, key)
    \/ \E u \in OptUsers, w \in Windows, key \in BOOLEAN : ReminderSuggestions(u, w, key)

\* the message log under HTTP requests and the sessions that append to it
NextLog == SessionStep(LogSessions, Usernames, LogMsgs) \/ HttpStep

SpecLog == Init /\ [][NextLog]_vars

\* the session registry under concurrent session handlers
NextChat == SessionStep(ChatSessions, {"ann"}, ChatMsgs)

SpecChat == Init /\ [][NextChat]_vars

\* senders whose clients stay: every handler past its join sequence receives
\* texts and broadcasts them while the others do the same
OrderStep ==
    \E s \in 1..OrderSessions :
        \/ Connect(s, "ann")
        \/ SendResume(s)
        \/ PersonalResume(s)
        \/ ReceiveText(s, OrderMsgs)

NextOrder == OrderStep

SpecOrder == Init /\ [][NextOrder]_vars

\* the session handlers under the event loop's scheduling: a coroutine whose
\* await has completed is resumed; clients connect, send and go away as they
\* please
NextFair == SessionStep(FairSessions, {"ann"}, FairMsgs)

SpecFair ==
    /\ Init
    /\ [][NextFair]_vars
    /\ \A s \in 1..FairSessions :
         /\ WF_vars(SendResume(s))
         /\ WF_vars(PersonalResume(s))
         /\ WF_vars(ReceiveDisconnect(s))

\* the store and the completions a refresh can meet; with no store no
\* completion is ever asked for
Environments ==
    {e \in [store : StoreStates, completions : Completions] :
        e.store # "ok" => ~e.completions.key}

MemoryStep ==
    \/ \E enabled \in BOOLEAN : Len(ai_toggle_history) < MemToggles /\ ToggleAI(enabled)
    \/ \E body \in IndividualRequests, e \in Environments :
           RefreshIndividual(body, e.store, e.completions)
    \/ \E body \in GroupRequests, e \in Environments :
           RefreshGroup(body, e.store, e.completions)

\* the vector store under the refresh endpoints, over a log one session appends to
NextMem == SessionStep(LogSessions, {"ann"}, MemMsgs) \/ MemoryStep

SpecMem == Init /\ [][NextMem]_vars

\* the completion of a refresh that yields a record, in the search specification
Distilled == [key |-> TRUE, summary |-> "text", extraction |-> "decisions"]

SearchStep ==
    \/ \E body \in IndividualRequests, store \in StoreStates :
           RefreshIndividual(body, store, Distilled)
    \/ \E body \in GroupRequests, store \in StoreStates :
           RefreshGroup(body, store, Distilled)
    \/ \E user_id \in SearchUserIds, limit \in Limits, store \in StoreStates,
          outcome \in RagOutcomes :
           SearchIndividual(user_id, limit, store, outcome)
    \/ \E group_id \in SearchGroupIds, limit \in Limits, store \in StoreStates,
          outcome \in RagOutcomes :
           SearchGroup(group_id, limit, store, outcome)

\* the search endpoints over the points the refresh endpoints have written
NextSearch == SessionStep(LogSessions, {"ann"}, SearchMsgs) \/ SearchStep

SpecSearch == Init /\ [][NextSearch]_vars

\* ================================================================ claims
IsPrefix(a, b) == Len(a) <= Len(b) /\ \A i \in DOMAIN a : b[i] = a[i]
CursorOf(u) == IF u \in DOMAIN user_last_read THEN user_last_read[u] ELSE 0

\* C1: the log is append-only.  Its length is the number of add_message calls
\* made so far, the k-th event in it is the one the k-th call created, and no
\* step of any operation (append, toggle, mark-read, read) removes, reorders or
\* rewrites an event that is already there.
C1_AppendOnly ==
    /\ [](/\ Len(messages) = n_appends
          /\ \A i \in DOMAIN messages : messages[i].message_id = i)
    /\ [][IsPrefix(messages, messages')]_vars

C1_Witness ==
    /\ Len(messages) = 2
    /\ ai_toggle_history # <<>>
    /\ user_last_read # EmptyDict
    /\ last_req.ep = "unread-messages"

\* C2: consent stamping is a snapshot.  The event a step appends carries the
\* flag current before that step, the stamp of a stored event never changes
\* whatever /ai-toggle does later, get_ai_enabled_messages holds exactly the
\* events stamped true and get_all_messages_for_summary holds every event.
C2_ConsentSnapshot ==
    /\ [][/\ \A i \in DOMAIN messages :
               i \in DOMAIN messages' /\ messages'[i].ai_enabled = messages[i].ai_enabled
          /\ Len(messages') > Len(messages) =>
               messages'[Len(messages')].ai_enabled = ai_enabled]_vars
    /\ [](LET f == get_ai_enabled_messages(messages)
              a == get_all_messages_for_summary(messages)
          IN /\ \A i \in DOMAIN f : f[i].ai_enabled
             /\ \A j \in DOMAIN messages :
                  messages[j].ai_enabled <=> \E i \in DOMAIN f : f[i] = messages[j]
             /\ \A j \in DOMAIN messages : \E i \in DOMAIN a : a[i] = messages[j])

\* an event appended while the flag was off, and the flag on again since
C2_Witness ==
    /\ Len(messages) = 2
    /\ ~messages[1].ai_enabled
    /\ messages[2].ai_enabled
    /\ ai_enabled

\* C3: for a user who has marked the log read, the unread count is the number
\* of events appended since that mark: 0 right after it and after any steps
\* that append nothing, k after k appends.
C3_UnreadCountsAppends ==
    \A u \in DOMAIN since_mark :
        get_unread_count(messages, user_last_read, u) = since_mark[u]

\* both users marked; one has two appends since, the other none, with a toggle between
C3_Witness ==
    /\ DOMAIN since_mark = Usernames
    /\ \E u \in Usernames : since_mark[u] = 2
    /\ \E u \in Usernames : since_mark[u] = 0
    /\ ai_toggle_history # <<>>

\* C4: every cursor lies between 0 and the length of the log, and no step
\* removes a cursor or makes it smaller.
C4_CursorMonotone ==
    /\ [](\A u \in DOMAIN user_last_read :
              0 <= user_last_read[u] /\ user_last_read[u] <= Len(messages))
    /\ [][\A u \in DOMAIN user_last_read :
              u \in DOMAIN user_last_read' /\ user_last_read'[u] >= user_last_read[u]]_vars

\* a cursor that moved up and is behind the log again
C4_Witness ==
    \E u \in DOMAIN user_last_read :
        /\ user_last_read[u] = 1
        /\ Len(messages) = 2
        /\ since_mark[u] = 1

\* C5: the unread events of a user are the events after its cursor (all of them
\* for a user without one), in log order, and the unread count is their number;
\* GET /unread-messages answers with these and moves no cursor.
C5_UnreadIsSuffix ==
    /\ [](\A u \in Usernames :
            LET r == get_unread_messages(messages, user_last_read, u)
            IN /\ Len(r) = Len(messages) - CursorOf(u)
               /\ \A i \in DOMAIN r : r[i] = messages[CursorOf(u) + i]
               /\ get_unread_count(messages, user_last_read, u) = Len(r))
    /\ [][(last_req' # last_req /\ last_req'.ep = "unread-messages"
                                /\ last_req'.user # None) =>
             /\ user_last_read' = user_last_read
             /\ Len(last_req'.messages) = Len(messages) - CursorOf(last_req'.user)
             /\ \A i \in DOMAIN last_req'.messages :
                  last_req'.messages[i] = messages[CursorOf(last_req'.user) + i]
             /\ last_req'.count = Len(last_req'.messages)]_vars

\* one user with a cursor in the middle asks, another has no cursor
C5_Witness ==
    /\ last_req.ep = "unread-messages"
    /\ last_req.user \in DOMAIN user_last_read
    /\ Len(messages) = 2
    /\ Len(last_req.messages) = 1
    /\ DOMAIN user_last_read # Usernames

C7_SnapshotBroadcast ==
    last_bc.by # 0 =>
        /\ ~last_bc.raised
        /\ \A r \in (last_bc.start \cap last_bc.end) \ (last_bc.excl \cup last_bc.failed) :
               r \in last_bc.got

\* C8: a step removes a session from the registry only if that session's own
\* transport is closed; a healthy session is never evicted because of what
\* happens to another session.
C8_EvictsOnlyTheFailed ==
    [][\A x \in Keys(active_connections) \ Keys(active_connections') :
           transport[x] = "closed"]_vars

\* the feature endpoints other than /chat-summarize and the memory refreshes
FeatureEps ==
    {"prioritize", "moderate", "smart-replies", "tasks-classifier", "translate",
     "smart-reminders"}
RefreshEps == {"refresh-individual", "refresh-group"}

\* C9: whatever a feature endpoint other than chat summary puts in an LLM
\* prompt is an event stamped with consent, also for a request that names a
\* username and so starts from that user's unread events.
C9_OnlyConsentedToLLM ==
    last_req.ep \in FeatureEps =>
        \A i \in DOMAIN last_req.llm : last_req.llm[i].ai_enabled

RECURSIVE ConsentTrue(_)
\* the events stamped true, in order
ConsentTrue(log) ==
    IF log = <<>> THEN <<>>
    ELSE (IF Head(log).ai_enabled THEN <<Head(log)>> ELSE <<>>) \o ConsentTrue(Tail(log))

\* C10: a memory refresh that reaches the distiller hands it exactly the events
\* of the log stamped true, in log order, whatever the global flag is at that
\* moment, and does so whenever the store is available and such events exist;
\* no event stamped false is in what the refresh gives the LLM.
C10_RefreshUsesConsentSlice ==
    last_req.ep \in RefreshEps =>
        LET log == SubSeq(messages, 1, last_req.at)
        IN /\ last_req.distilled => last_req.distill = ConsentTrue(log)
           /\ (last_req.status = 200 /\ ConsentTrue(log) # <<>>) => last_req.distilled
           /\ \A i \in DOMAIN last_req.llm : last_req.llm[i].ai_enabled
           /\ \A i \in DOMAIN last_req.llm :
                \E j \in DOMAIN last_req.distill : last_req.distill[j] = last_req.llm[i]

\* a refresh while the flag is off, over a log with an event stamped false
C10_Witness ==
    /\ last_req.ep = "refresh-group"
    /\ last_req.distilled
    /\ ~ai_enabled
    /\ last_req.at = 2
    /\ Len(messages) = 2
    /\ Len(last_req.distill) = 1
    /\ last_req.called

\* the memory endpoints
SearchEps == {"search-individual", "search-group"}
MemoryEps == RefreshEps \cup SearchEps

\* C11: a request to an AI feature endpoint other than chat summary that is
\* served while the global flag is off ends in an error outcome and makes no
\* LLM call and no call on the vector store; the memory endpoints included.
C11_FlagOffRejects ==
    (last_req.ep \in FeatureEps \cup MemoryEps /\ ~last_req.flag) =>
        /\ last_req.status # 200
        /\ ~last_req.called
        /\ last_req.store_calls = <<>>

\* C12: distilling an empty list of events gives no record, and a memory
\* refresh that finds no consent-true event in the log answers with count 0
\* and has made no call on the vector store: no client, no existence check,
\* no index, no upsert.
C12_EmptyRefreshMakesNoStoreCall ==
    /\ \A chat_type \in {"individual", "group"}, c \in Completions :
         build_memories_from_messages(<<>>, chat_type, c.key, c.summary,
                                      c.extraction)
           = [raised |-> FALSE, memories |-> <<>>]
    /\ (last_req.ep \in RefreshEps /\ last_req.distill = <<>>) =>
         /\ last_req.status = 200
         /\ last_req.count = 0
         /\ last_req.store_calls = <<>>

\* C13: a memory refresh during which every LLM call fails, the vector store
\* being reachable, answers normally with count 0 and writes no point.
C13_AllCallsFailUpsertsNothing ==
    (/\ last_req.ep \in RefreshEps
     /\ last_req.raised # "store"
     /\ last_req.summary = "fail"
     /\ last_req.extraction = "fail") =>
        /\ last_req.status = 200
        /\ last_req.count = 0
        /\ last_req.point_id = None
        /\ \A i \in DOMAIN last_req.store_calls : last_req.store_calls[i] # "upsert"

\* completions of the extraction call that are a failure or malformed
Malformed == {"fail", "not_object", "bad_section", "bad_faq"}
ChatTypeOf(ep) == IF ep = "refresh-individual" THEN "individual" ELSE "group"

\* C14: whatever the extraction call does, distilling does not raise to the
\* refresh that called it, and a failed or malformed completion (not JSON, not
\* an object, a section that is no list, an FAQ entry that is no object)
\* counts as an extraction with every field empty.
C14_DistillNeverRaises ==
    (last_req.ep \in RefreshEps /\ last_req.distilled) =>
        /\ last_req.raised # "distill"
        /\ last_req.extraction \in Malformed =>
             last_req.count =
                Len(build_memories_from_messages(
                        last_req.distill, ChatTypeOf(last_req.ep), TRUE,
                        last_req.summary, "empty").memories)

\* two refresh-individual requests in a row, both answered normally
TwoIndividualRefreshes ==
    /\ last_req.ep = "refresh-individual"
    /\ last_req'.ep = "refresh-individual"
    /\ n_refresh' = n_refresh + 1
    /\ last_req.status = 200
    /\ last_req'.status = 200

\* C15: a refresh-individual request that repeats the one before it (same
\* participant ids and names, same events, same completions) computes the
\* same point id, leaves the number of stored points as it was, and what it
\* stores equals what the first one stored.
C15_IdempotentUpsert ==
    [][(TwoIndividualRefreshes /\ last_req'.repeat) =>
          /\ last_req'.point_id = last_req.point_id
          /\ last_req'.count = last_req.count
          /\ Cardinality(DOMAIN individual_points')
               = Cardinality(DOMAIN individual_points)
          /\ individual_points' = individual_points]_vars

\* the same request served twice, a point written both times
C15_Witness ==
    /\ last_req.ep = "refresh-individual"
    /\ last_req.repeat
    /\ last_req.count = 1
    /\ n_refresh = 2
    /\ DOMAIN individual_points = {last_req.point_id}
    /\ individual_points[last_req.point_id].payload.sender_name = last_req.body.user1_name

\* the second request names the same ids in the same order and changes the
\* display name of exactly one of them
OneNameChanged(b1, b2) ==
    /\ b1.user1_id = b2.user1_id
    /\ b1.user2_id = b2.user2_id
    /\ (b1.user1_name # b2.user1_name) # (b1.user2_name # b2.user2_name)

\* C16: a refresh-individual request that follows one with the same ids and
\* the same events but a changed display name of one participant computes a
\* different point id, and the point written under the earlier id stays in
\* the collection as it was.
C16_IdentitySensitivity ==
    [][(/\ TwoIndividualRefreshes
        /\ OneNameChanged(last_req.body, last_req'.body)
        /\ last_req'.distill = last_req.distill
        /\ last_req.count = 1
        /\ last_req'.count = 1) =>
          /\ last_req'.point_id # last_req.point_id
          /\ last_req.point_id \in DOMAIN individual_points'
          /\ individual_points'[last_req.point_id]
               = individual_points[last_req.point_id]]_vars

\* two points of one conversation that differ in one display name
C16_Witness ==
    /\ last_req.ep = "refresh-individual"
    /\ last_req.count = 1
    /\ \E p, q \in Points(individual_points) :
         /\ p.id # q.id
         /\ q.id = last_req.point_id
         /\ p.payload.participant_ids = q.payload.participant_ids
         /\ p.payload.sender_name # q.payload.sender_name
         /\ p.payload.receiver_name = q.payload.receiver_name
         /\ p.payload.summary_text = q.payload.summary_text

\* the ids of a point's participants, and the name each of them carries
ParticipantIds(pt) ==
    {pt.payload.participants[i].user_id : i \in DOMAIN pt.payload.participants}
ParticipantNames(pt) ==
    {<<pt.payload.participants[i].user_id, pt.payload.participants[i].name>> :
        i \in DOMAIN pt.payload.participants}

\* C17: the individual collection never holds two points for the same
\* unordered pair of participant ids carrying the same display names,
\* whatever order the two participants were passed in.
C17_OnePointPerConversationAndNames ==
    \A p, q \in Points(individual_points) :
        (ParticipantIds(p) = ParticipantIds(q)
            /\ ParticipantNames(p) = ParticipantNames(q)) => p.id = q.id

\* C18: a search whose retrieval is empty is answered with the fixed
\* "no relevant memory found" answer, an empty sources list, and no call to
\* the LLM.
C18_EmptyRetrievalFixedAnswer ==
    (last_req.ep \in SearchEps /\ last_req.status = 200 /\ last_req.results = <<>>) =>
        /\ last_req.answer = "none_found"
        /\ last_req.sources = <<>>
        /\ ~last_req.called

\* a search over a populated collection that retrieves nothing
C18_Witness ==
    /\ last_req.ep = "search-individual"
    /\ last_req.status = 200
    /\ last_req.results = <<>>
    /\ last_req.answer = "none_found"
    /\ individual_points # EmptyDict

\* C19: when the LLM call fails on a non-empty retrieval, the answer is the
\* fixed error answer and the sources list holds one label per retrieved
\* payload.
C19_FailedSynthesisKeepsSources ==
    (/\ last_req.ep \in SearchEps
     /\ last_req.status = 200
     /\ last_req.results # <<>>
     /\ last_req.rag = "fail") =>
        /\ last_req.answer = "error"
        /\ Len(last_req.sources) = Len(last_req.results)
        /\ \A i \in DOMAIN last_req.results :
             last_req.sources[i] = source_label(i, last_req.results[i])

\* C20: with the flag on, every LLM-backed feature endpoint answers with a
\* result of its schema (status 200), also when the LLM has no key or its
\* calls fail; it never answers with an error.
C20_FeaturesFailSoft ==
    (last_req.ep \in FeatureEps \cup {"chat-summarize"} /\ last_req.flag) =>
        last_req.status = 200

\* the store states in which no call on the store can succeed
StoreDown == {"unconfigured", "unreachable"}

\* C21: a refresh or search request that finds the vector store unconfigured
\* or unreachable ends in an error; it never answers with a count or a list
\* of results, and nothing is written.
C21_StoreFailureSurfaces ==
    (last_req.ep \in MemoryEps /\ last_req.store \in StoreDown) =>
        /\ last_req.status = 500
        /\ last_req.raised = "store"
        /\ last_req.count = 0
        /\ last_req.results = <<>>
        /\ "upsert" \notin SeqRange(last_req.store_calls)
        /\ "search" \notin SeqRange(last_req.store_calls)

\* a search that would have hits meets a store that cannot be reached
C21_Witness ==
    /\ last_req.ep = "search-individual"
    /\ last_req.store = "unreachable"
    /\ last_req.status = 500
    /\ individual_hits(individual_points, "a") # {}

\* the leave path of the handler: what follows "except WebSocketDisconnect"
LeaveStages == {"bc_leave", "bc_leave_count", "return"}
\* handler s takes the step in which receive_text raises WebSocketDisconnect
Leaves(s) == h[s].pc = "receive" /\ h'[s].stage \in LeaveStages
\* s is in neither dict of the manager
Absent_(s) == s \notin Keys(active_connections) /\ s \notin DOMAIN user_names

\* C22: disconnect of an id that is not registered changes nothing, and a
\* second disconnect of an id leaves what the first left; when a broadcast
\* has evicted a session, the disconnect its own handler runs afterwards
\* leaves the registry as it is and the handler goes on to announce the leave.
C22_DisconnectIdempotent ==
    /\ [](\A s \in Sessions :
            /\ Absent_(s) => disconnect(Registry, s) = Registry
            /\ disconnect(disconnect(Registry, s), s) = disconnect(Registry, s))
    /\ [][\A s \in Sessions :
            (Leaves(s) /\ Absent_(s)) =>
                /\ active_connections' = active_connections
                /\ user_names' = user_names
                /\ h'[s].pc \notin {"errored", "crashed"}]_vars

\* a broadcast of another handler evicted s; the handler of s has since run
\* its own disconnect and is sending the leave notice
C22_Witness ==
    \E s \in Sessions :
        /\ h[s].pc = "send"
        /\ h[s].stage = "bc_leave"
        /\ last_bc.by # s
        /\ s \in last_bc.failed
        /\ s \in last_bc.end
        /\ s \notin last_bc.after
        /\ s \notin h[s].start
        /\ Keys(active_connections) # {}

\* handler s takes the step in which its send_personal_message ends
PersonalEnds(s) == h[s].pc = "personal" /\ h'[s] # h[s]

\* C23: send_personal_message sends on the socket of the session it names and
\* on no other; when that send fails the exception reaches the caller, and
\* neither dict of the manager is changed (the target stays registered).
C23_UnicastTargetOnly ==
    /\ [](\A s \in Sessions : h[s].pc = "personal" => h[s].cur = s)
    /\ [][\A s \in Sessions :
            PersonalEnds(s) =>
                /\ \A t \in Sessions \ {s} : h'[t] = h[t]
                /\ transport[h[s].cur] # "open" =>
                      /\ h'[s].pc = "crashed"
                      /\ active_connections' = active_connections
                      /\ user_names' = user_names
                      /\ last_bc' = last_bc]_vars

\* a welcome or user_count send has failed while others are registered; the
\* handler is gone and its session is still in the registry
C23_Witness ==
    \E s \in Sessions :
        /\ h[s].pc = "crashed"
        /\ h[s].stage \in PersonalStages
        /\ s \in Keys(active_connections)
        /\ Keys(active_connections) # {s}

\* a step that serves POST /ai-toggle
Toggles == last_req'.ep = "ai-toggle" /\ last_req' # last_req

\* C24: a toggle request sets the flag to the value it carries, so that the
\* status read back is that value; it appends exactly one record with that
\* value to the toggle history and leaves the log, the stamped flag of every
\* event in it, and every cursor as they were.
C24_ToggleFrame ==
    /\ [](last_req.ep \in {"ai-status", "ai-toggle"} => last_req.flag = ai_enabled)
    /\ [][(ai_toggle_history' # ai_toggle_history \/ ai_enabled' # ai_enabled
             \/ Toggles) =>
            /\ ai_toggle_history' = Append(ai_toggle_history, ai_enabled')
            /\ last_req'.ep = "ai-toggle"
            /\ last_req'.flag = ai_enabled'
            /\ messages' = messages
            /\ user_last_read' = user_last_read]_vars

\* the flag has been switched off and on again over a log that holds an
\* event stamped true and a cursor
C24_Witness ==
    /\ last_req.ep = "ai-toggle"
    /\ ai_toggle_history = <<FALSE, TRUE>>
    /\ ai_enabled
    /\ \E i \in DOMAIN messages : ~messages[i].ai_enabled
    /\ DOMAIN user_last_read # {}

\* the event a message broadcast carries is in the log with that id and flag
Stored(msg) ==
    \E i \in DOMAIN messages :
        /\ messages[i].message_id = msg.val
        /\ messages[i].ai_enabled = msg.flag

\* C25: the event of a message broadcast is in the log, with the id and the
\* consent flag the broadcast carries, from before its first send on; the
\* sender is not sent it; and when the broadcast is over, every other session
\* that was registered when it began has been sent it.
C25_AppendThenFanOut ==
    /\ \A s \in Sessions :
         (h[s].pc = "send" /\ h[s].stage = "bc_message") =>
             (Stored(h[s].msg) /\ s \notin h[s].got /\ h[s].cur # s)
    /\ last_bc.stage = "bc_message" =>
         /\ Stored(last_bc.msg)
         /\ last_bc.by \notin last_bc.got
         /\ (last_bc.start \ {last_bc.by}) \subseteq (last_bc.got \cup last_bc.failed)

\* the two broadcasts of the leave path
LeaveBroadcasts == {"bc_leave", "bc_leave_count"}

\* C26: while a handler announces the leave of its session, and when each of
\* the two announcements is over, the session is out of the registry, was out
\* of it when the announcement began, and has been sent neither; the count
\* the user_count announcement carries is the size of the registry when it
\* began, the leaver not counted.
C26_RemovedBeforeAnnounced ==
    /\ \A s \in Sessions :
         (h[s].pc = "send" /\ h[s].stage \in LeaveBroadcasts) =>
             /\ s \notin Keys(active_connections)
             /\ s \notin h[s].start
             /\ s \notin h[s].got
             /\ h[s].cur # s
             /\ h[s].stage = "bc_leave_count" =>
                    h[s].msg = [type |-> "user_count",
                                val |-> Cardinality(h[s].start), flag |-> FALSE]
    /\ last_bc.stage \in LeaveBroadcasts =>
         /\ last_bc.by \notin last_bc.start \cup last_bc.got \cup last_bc.failed
         /\ last_bc.by \notin last_bc.after
         /\ last_bc.stage = "bc_leave_count" =>
                last_bc.msg = [type |-> "user_count",
                               val |-> Cardinality(last_bc.start), flag |-> FALSE]

\* a user_count announcement of a leave has reached the two sessions that stay
C26_Witness ==
    /\ last_bc.stage = "bc_leave_count"
    /\ ~last_bc.raised
    /\ Cardinality(last_bc.got) = 2
    /\ last_bc.msg.val = 2
    /\ h[last_bc.by].pc = "done"

\* the sections an extraction completion fills with a non-empty list
Filled(outcome) ==
    CASE outcome = "decisions" -> {"decisions"}
      [] outcome = "tasks_facts" -> {"tasks", "facts"}
      [] outcome = "all_sections" -> {"decisions", "tasks", "facts", "faqs"}
      [] OTHER -> {}
\* the order in which the sections of a chat type are to appear
HeadingOrder(chat_type) ==
    IF chat_type = "individual" THEN <<"decisions", "tasks", "facts">>
    ELSE <<"decisions", "faqs">>
\* the headings of a payload text, in order
Headings(summary_text) == [i \in DOMAIN summary_text |-> summary_text[i].tag]
\* the point a refresh wrote
WrittenPoint ==
    IF last_req.ep = "refresh-individual" THEN individual_points[last_req.point_id]
    ELSE group_points[last_req.point_id]

\* C27: a refresh that distills writes at most one record; the headings of
\* its text are those sections of the chat type the extraction filled, in the
\* fixed order, or the overview alone when it filled none of them; the text
\* is never empty.
C27_PayloadSections ==
    (last_req.ep \in RefreshEps /\ last_req.status = 200) =>
        LET order == HeadingOrder(ChatTypeOf(last_req.ep))
            filled == SelectSeq(order, LAMBDA n : n \in Filled(last_req.extraction))
        IN /\ last_req.count \in {0, 1}
           /\ last_req.count = 1 =>
                LET text == WrittenPoint.payload.summary_text
                IN /\ text # <<>>
                   /\ Headings(text) = IF filled # <<>> THEN filled
                                       ELSE <<"overview">>
                   /\ \A i \in DOMAIN text : text[i].text # Blank
           /\ (last_req.count = 0 /\ last_req.distill # <<>>) =>
                (filled = <<>> /\ last_req.summary = "blank")

\* an individual record with all three of its sections, and no overview
C27_Witness ==
    /\ last_req.ep = "refresh-individual"
    /\ last_req.status = 200
    /\ last_req.count = 1
    /\ last_req.extraction = "all_sections"
    /\ Headings(individual_points[last_req.point_id].payload.summary_text)
         = <<"decisions", "tasks", "facts">>

\* in this step the message broadcast of handler a calls send_json on the
\* socket of r
BeginsSend(a, r) ==
    /\ h'[a].pc = "send"
    /\ h'[a].stage = "bc_message"
    /\ h'[a].cur = r
    /\ (h[a].pc # "send" \/ h[a].pos # h'[a].pos)
\* r has already been sent a message event with an id above id: by a broadcast
\* that is still running, or by the one that ended last
LaterAlreadySent(r, id) ==
    \/ \E b \in Sessions :
         /\ h[b].pc = "send"
         /\ h[b].stage = "bc_message"
         /\ h[b].msg.val > id
         /\ r \in h[b].got \cup {h[b].cur}
    \/ /\ last_bc.stage = "bc_message"
       /\ last_bc.msg.val > id
       /\ r \in last_bc.got

\* C28: no session is sent a message event after it has been sent one that
\* was appended to the log later (ids are given in append order), however
\* the broadcasts of concurrent senders interleave at their sends.
C28_DeliveryFollowsLogOrder ==
    [][\A a, r \in Sessions :
          BeginsSend(a, r) => ~LaterAlreadySent(r, h'[a].msg.val)]_vars

\* C29: a session whose handler has ended, by the leave path, by an
\* exception in the receive loop, or by an exception in the join sequence, is
\* eventually out of the registry.
C29_NoLeakedSessions ==
    \A s \in Sessions :
        (h[s].pc \in Exited) ~> (s \notin Keys(active_connections))

\* a step that serves POST /chat-summarize
Summarizes ==
    /\ last_req'.ep = "chat-summarize"
    /\ (last_req' # last_req \/ user_last_read' # user_last_read)

====
